---- MODULE Spec2Model ----
(***************************************************************************)
(* TransmissionClient._make_request of transmission_server.py: one JSON    *)
(* RPC call to the Transmission daemon, with the X-Transmission-Session-Id *)
(* (CSRF) handshake.  Every call is a coroutine; the steps of the model    *)
(* are the stretches of code between two awaits (asyncio runs one          *)
(* coroutine at a time, so each stretch is atomic).                        *)
(***************************************************************************)
EXTENDS Integers, Sequences, FiniteSets, TLC

\* ------------------------------------------------------------------ bounds
\* Coroutines of _make_request that may be in flight at the same time.
NumCalls == 2

Calls == 1..NumCalls

\* ------------------------------------------------------- optional values
\* Python's None is the empty tuple, a present value v is <<v>>.
None == << >>
Some(v) == << v >>

\* Python truthiness of an optional string ("if transmission_session_id:",
\* "if new_session_id:"): None and "" are false.
TruthyStr(o) == o # None /\ o[1] # ""

\* Python truthiness of an optional int ("if tag:"): None and 0 are false.
TruthyInt(o) == o # None /\ o[1] # 0

\* Python truthiness of an optional dict ("arguments or {}"); a dict is the
\* set of its <<key, value>> items: None and {} are false.
TruthyDict(o) == o # None /\ o[1] # {}

\* ------------------------------------------------------------ the inputs
Methods == {"session-get", "torrent-get"}
Fields == {<<"fields", "id">>}
ArgumentValues == {None, Some({}), Some(Fields)}
TagValues == {None, Some(0), Some(7)}

\* What a caller passes to _make_request(method, arguments=None, tag=None).
Invocations == [method : Methods, arguments : ArgumentValues, tag : TagValues]

\* The calls the resource and tool handlers make (lines 139, 143, 153, 394):
\* none passes a tag.  The concurrent call c is a handler making its call.
HandlerCalls ==
    << [method |-> "session-get", arguments |-> None, tag |-> None],
       [method |-> "torrent-get", arguments |-> Some({<<"fields", "id">>}),
        tag |-> None],
       [method |-> "session-stats", arguments |-> None, tag |-> None],
       [method |-> "torrent-start", arguments |-> Some({<<"ids", "1">>}),
        tag |-> None] >>

handler_call(c) == HandlerCalls[((c - 1) % Len(HandlerCalls)) + 1]

\* ---------------------------------------------------------- the daemon
Tokens == {"t1", "t2"}
StatusCodes == {200, 409, 500}
SessionHeaders == {None, Some("")} \cup {Some(t) : t \in Tokens}
JsonSuccess == "{\"result\": \"success\"}"
JsonOther == "{\"result\": \"duplicate torrent\"}"
Html == "<h1>409: Conflict</h1>"
Bodies == {JsonSuccess, JsonOther, Html}

\* A response of the daemon: status code, the X-Transmission-Session-Id
\* header (None when the response has none) and the body text.
Responses == [status : StatusCodes, session : SessionHeaders, text : Bodies]

\* The responses the concurrent specification draws from.
FewResponses ==
    { r \in Responses :
        /\ r.session # Some("")
        /\ (r.status # 409 => r.session = None)
        /\ r.text = (IF r.status = 200 THEN JsonSuccess ELSE Html) }

\* The daemon's CSRF challenge: a 409 that carries a session id.
Challenge(r) == r.status = 409 /\ r.session \in {Some(t) : t \in Tokens}

\* response.json(): the parsed document, None standing for the
\* json.JSONDecodeError that a body which is no JSON raises.
json(text) ==
    CASE text = JsonSuccess -> Some([result |-> "success"])
      [] text = JsonOther -> Some([result |-> "duplicate torrent"])
      [] OTHER -> None

\* Only a server error counts as a failure.
is_success_below_500(status) == status < 500

\* response.raise_for_status(): httpx raises HTTPStatusError unless the
\* status is a 2xx.
is_success(status) == status >= 200 /\ status <= 299

\* --------------------------------------------------------------- state
VARIABLES
    transmission_session_id,  \* the module's global session id (line 41)
    session_id,               \* TransmissionClient.session_id (line 48)
    frame,                    \* per call: the coroutine's position and locals
    posts,                    \* per call: the POSTs it has issued, in order
    replies,                  \* per call: what its POSTs came back with, in order
    outcome,                  \* per call: what it returned or raised
    issued,                   \* the tokens the daemon has sent in 409 responses
    last409,                  \* the latest 409 answer to a first POST: token, call
    tool                      \* per call: the handle_call_tool that makes it

vars == << transmission_session_id, session_id, frame, posts, replies, outcome,
           issued, last409, tool >>

\* A coroutine that has not been called: no locals yet.
NoFrame ==
    [pc |-> "idle", method |-> "", arguments |-> None, tag |-> None,
     headers |-> None, payload |-> None]

Pending == [kind |-> "pending", status |-> 0, value |-> None]

\* Headers that never carry the stored session id.
build_headers_without_session(token) ==
    [content_type |-> "application/json", session |-> None]

\* Lines 54-60: the headers of the request, with the session id "if we
\* have one".
build_headers(token) ==
    [content_type |-> "application/json",
     session |-> IF TruthyStr(token) THEN token ELSE None]

\* Lines 62-68: the JSON payload; "arguments or {}", and the "tag" key
\* (None: the key is not in the payload) under "if tag:".
build_payload(method, arguments, tag) ==
    [method |-> method,
     arguments |-> IF TruthyDict(arguments) THEN arguments[1] ELSE {},
     tag |-> IF TruthyInt(tag) THEN tag ELSE None]

\* A retry on every 409, with or without a session id.
is_challenge_any_409(r) == r.status = 409

\* A retry on every failed response that carries a session id.
is_challenge_any_error(r) == ~is_success(r.status) /\ TruthyStr(r.session)

\* Lines 84-87: the response is a CSRF challenge that carries a session id.
is_challenge(r) == r.status = 409 /\ TruthyStr(r.session)

\* The session header of every 409 is stored, also when there is none.
updated_session_id_unguarded(token, r) ==
    IF r.status = 409 THEN r.session ELSE token

\* The session header of every response that has one is stored.
updated_session_id_any_response(token, r) ==
    IF TruthyStr(r.session) THEN r.session ELSE token

\* The session id is stored only while none is stored yet.
updated_session_id_once(token, r) ==
    IF is_challenge(r) /\ token = None THEN r.session ELSE token

\* Line 88: the global session id after a first response r.
updated_session_id(token, r) == IF is_challenge(r) THEN r.session ELSE token

\* The retry takes its session id from the global, read before line 88
\* has stored the new one.
retry_headers_from_global(headers, r) ==
    [headers EXCEPT !.session = transmission_session_id]

\* The retry goes out with the headers of the first POST.
retry_headers_unchanged(headers, r) == headers

\* Line 89: the headers of the retry.
retry_headers(headers, r) == [headers EXCEPT !.session = r.session]

\* A body that is no JSON is reported as one more network error.
finish_decode_error_as_network_error(r) ==
    IF ~is_success(r.status)
    THEN [kind |-> "Exception: HTTP error", status |-> r.status, value |-> None]
    ELSE IF json(r.text) = None
         THEN [kind |-> "Exception: Network error", status |-> 0, value |-> None]
         ELSE [kind |-> "return", status |-> r.status, value |-> json(r.text)]

\* Lines 98-104: raise_for_status(), then json(); an HTTPStatusError is
\* re-raised as Exception("HTTP error <status>: <text>"), a JSONDecodeError
\* is caught by neither except clause and leaves the coroutine as it is.
finish(r) ==
    IF ~is_success(r.status)
    THEN [kind |-> "Exception: HTTP error", status |-> r.status, value |-> None]
    ELSE IF json(r.text) = None
         THEN [kind |-> "JSONDecodeError", status |-> r.status, value |-> None]
         ELSE [kind |-> "return", status |-> r.status, value |-> json(r.text)]

\* A network failure that is swallowed: the call returns an empty document.
network_error_swallowed == [kind |-> "return", status |-> 0, value |-> Some({})]

\* Lines 101-102: an httpx.RequestError (connection refused, DNS failure,
\* timeout) is re-raised as Exception("Network error: ...").
network_error == [kind |-> "Exception: Network error", status |-> 0, value |-> None]

\* What came back for a POST: the daemon's response, or no response at all.
seen(r) == [kind |-> "response", status |-> r.status, session |-> r.session,
            text |-> r.text]
RequestFailed == [kind |-> "RequestError", status |-> 0, session |-> None, text |-> ""]

\* No tool call is being handled.
NoTool == [pc |-> "idle", name |-> "", arguments |-> {}, result |-> None]

Init ==
    /\ transmission_session_id = None
    /\ session_id = None
    /\ frame = [c \in Calls |-> NoFrame]
    /\ posts = [c \in Calls |-> << >>]
    /\ replies = [c \in Calls |-> << >>]
    /\ outcome = [c \in Calls |-> Pending]
    /\ issued = {}
    /\ last409 = [token |-> None, call |-> 0]
    /\ tool = [c \in Calls |-> NoTool]

\* Lines 50-81: _make_request(method, arguments, tag) runs up to its first
\* await: it reads the global session id, builds headers and payload and
\* issues the POST.
make_request(c, inv) ==
    /\ frame[c].pc = "idle"
    /\ LET headers == build_headers(transmission_session_id)
           payload == build_payload(inv.method, inv.arguments, inv.tag)
       IN  /\ frame' = [frame EXCEPT ![c] =
                  [pc |-> "post1", method |-> inv.method,
                   arguments |-> inv.arguments, tag |-> inv.tag,
                   headers |-> Some(headers), payload |-> Some(payload)]]
           /\ posts' = [posts EXCEPT ![c] =
                  << [headers |-> headers, json |-> payload] >>]
    /\ UNCHANGED << transmission_session_id, session_id, replies, outcome,
                    issued, last409 >>

\* Lines 139-153 and test-transmission.py: _make_request is called by a
\* resource handler or by the test script, not by a tool handler.
direct_call(c, inv) == make_request(c, inv) /\ UNCHANGED tool

\* Lines 84-99, 103-104: the first POST is answered by r.  A 409 with a
\* session id stores the id, puts it in the headers and issues the retry;
\* every other response ends the call.
first_response(c, r) ==
    /\ frame[c].pc = "post1"
    /\ replies' = [replies EXCEPT ![c] = << seen(r) >>]
    /\ issued' = IF Challenge(r) THEN issued \cup {r.session[1]} ELSE issued
    /\ last409' = IF Challenge(r) THEN [token |-> r.session, call |-> c] ELSE last409
    /\ transmission_session_id' = updated_session_id(transmission_session_id, r)
    /\ IF is_challenge(r)
       THEN LET headers == retry_headers(frame[c].headers[1], r)
            IN  /\ frame' = [frame EXCEPT ![c].pc = "post2",
                                          ![c].headers = Some(headers)]
                /\ posts' = [posts EXCEPT ![c] =
                       Append(@, [headers |-> headers, json |-> frame[c].payload[1]])]
                /\ UNCHANGED outcome
       ELSE /\ frame' = [frame EXCEPT ![c].pc = "done"]
            /\ outcome' = [outcome EXCEPT ![c] = finish(r)]
            /\ UNCHANGED posts
    /\ UNCHANGED << session_id, tool >>

\* Lines 77-81, 101-102: the first POST fails at the network level.
first_request_error(c) ==
    /\ frame[c].pc = "post1"
    /\ replies' = [replies EXCEPT ![c] = << RequestFailed >>]
    /\ frame' = [frame EXCEPT ![c].pc = "done"]
    /\ outcome' = [outcome EXCEPT ![c] = network_error]
    /\ UNCHANGED << transmission_session_id, session_id, posts, issued, last409,
                    tool >>

\* Lines 92-99, 103-104: the retry is answered by r; whatever r is, the
\* call ends with it.
retry_response(c, r) ==
    /\ frame[c].pc = "post2"
    /\ frame' = [frame EXCEPT ![c].pc = "done"]
    /\ outcome' = [outcome EXCEPT ![c] = finish(r)]
    /\ replies' = [replies EXCEPT ![c] = Append(@, seen(r))]
    /\ issued' = IF Challenge(r) THEN issued \cup {r.session[1]} ELSE issued
    /\ UNCHANGED << transmission_session_id, session_id, posts, last409, tool >>

\* Lines 92-96, 101-102: the retry fails at the network level.
retry_request_error(c) ==
    /\ frame[c].pc = "post2"
    /\ frame' = [frame EXCEPT ![c].pc = "done"]
    /\ outcome' = [outcome EXCEPT ![c] = network_error]
    /\ replies' = [replies EXCEPT ![c] = Append(@, RequestFailed)]
    /\ UNCHANGED << transmission_session_id, session_id, posts, issued, last409,
                    tool >>

\* A client without a timeout: httpx.AsyncClient(timeout=None).
timeout_disabled == None

\* Line 75: httpx.AsyncClient(timeout=30.0), the seconds a POST may take.
timeout == Some(30)

\* Lines 75, 101-102: the daemon has not answered within the timeout; httpx
\* raises TimeoutException, a RequestError, in the POST the call waits for.
post_times_out(c) ==
    /\ timeout # None
    /\ (first_request_error(c) \/ retry_request_error(c))

\* The caller takes the result or the exception; the coroutine and its
\* locals are gone and another call may be made.
call_returns(c) ==
    /\ frame[c].pc = "done"
    /\ frame' = [frame EXCEPT ![c] = NoFrame]
    /\ posts' = [posts EXCEPT ![c] = << >>]
    /\ replies' = [replies EXCEPT ![c] = << >>]
    /\ outcome' = [outcome EXCEPT ![c] = Pending]
    /\ UNCHANGED << transmission_session_id, session_id, issued, last409, tool >>

\* The MCP server: tool handlers call _make_request while other calls are
\* waiting for the daemon.
Next ==
    \E c \in Calls :
        \/ direct_call(c, handler_call(c))
        \/ \E r \in FewResponses : first_response(c, r)
        \/ first_request_error(c)
        \/ \E r \in FewResponses : retry_response(c, r)
        \/ retry_request_error(c)
        \/ post_times_out(c)
        \/ call_returns(c)

Spec == Init /\ [][Next]_vars

\* The answers of the handshake: the challenge and the success.
HandshakeResponses ==
    { r \in FewResponses : r.status = 200 \/ Challenge(r) }

\* The same server, with a daemon that answers with the handshake's
\* responses, fails, or does not answer at all.
NextLive ==
    \E c \in Calls :
        \/ direct_call(c, handler_call(c))
        \/ \E r \in HandshakeResponses : first_response(c, r)
        \/ first_request_error(c)
        \/ \E r \in HandshakeResponses : retry_response(c, r)
        \/ retry_request_error(c)
        \/ post_times_out(c)
        \/ call_returns(c)

\* The timer of line 75 runs for every POST that is waited for: a call
\* cannot wait for ever without its timeout firing.
SpecLive ==
    Init /\ [][NextLive]_vars /\ \A c \in Calls : WF_vars(post_times_out(c))

\* test-transmission.py: every call is awaited before the next is made.
NoneInFlight == \A d \in Calls : frame[d].pc = "idle"

NextSeq ==
    \E c \in Calls :
        \/ \E inv \in Invocations : NoneInFlight /\ direct_call(c, inv)
        \/ \E r \in Responses : first_response(c, r)
        \/ first_request_error(c)
        \/ \E r \in Responses : retry_response(c, r)
        \/ retry_request_error(c)
        \/ post_times_out(c)
        \/ call_returns(c)

SpecSeq == Init /\ [][NextSeq]_vars

\* ------------------------------------------------------ handle_call_tool
\* Lines 316-624: the MCP tool handler.  It reads its required arguments,
\* awaits one _make_request and formats the document into one text.

\* The tools handle_call_tool dispatches on (the names of the if/elif chain).
KnownTools == {"add_torrent", "remove_torrent", "start_torrent",
               "stop_torrent", "get_torrent_info", "set_torrent_priority",
               "set_speed_limits", "search_torrents", "get_session_stats"}

\* The names a caller may pass: the known ones and one nobody handles.
ToolNames == KnownTools \cup {"list_torrents"}

\* The argument mappings a caller may pass, each the set of its items.
ToolArguments ==
    { {},
      {<<"url", "magnet:?xt=1">>},
      {<<"torrent_id", "1">>},
      {<<"torrent_id", "1">>, <<"priority", "high">>},
      {<<"query", "iso">>} }

\* The keys of a dict, and d[key].
Keys(d) == {item[1] : item \in d}
Get(d, key) == (CHOOSE item \in d : item[1] = key)[2]

\* The keys each branch reads as arguments["..."], which raises KeyError
\* when the key is missing; every such read precedes the branch's await.
required_arguments(name) ==
    CASE name = "add_torrent" -> {"url"}
      [] name \in {"remove_torrent", "start_torrent", "stop_torrent",
                   "get_torrent_info"} -> {"torrent_id"}
      [] name = "set_torrent_priority" -> {"torrent_id", "priority"}
      [] name = "search_torrents" -> {"query"}
      [] OTHER -> {}

\* The one _make_request each branch awaits (none of them passes a tag).
tool_request(name, arguments) ==
    CASE name = "add_torrent" ->
             [method |-> "torrent-add",
              arguments |-> Some({<<"filename", Get(arguments, "url")>>,
                                  <<"paused", "False">>}),
              tag |-> None]
      [] name = "remove_torrent" ->
             [method |-> "torrent-remove",
              arguments |-> Some({<<"ids", Get(arguments, "torrent_id")>>,
                                  <<"delete-local-data", "False">>}),
              tag |-> None]
      [] name = "start_torrent" ->
             [method |-> "torrent-start",
              arguments |-> Some({<<"ids", Get(arguments, "torrent_id")>>}),
              tag |-> None]
      [] name = "stop_torrent" ->
             [method |-> "torrent-stop",
              arguments |-> Some({<<"ids", Get(arguments, "torrent_id")>>}),
              tag |-> None]
      [] name = "get_torrent_info" ->
             [method |-> "torrent-get",
              arguments |-> Some({<<"ids", Get(arguments, "torrent_id")>>,
                                  <<"fields", "id">>}),
              tag |-> None]
      [] name = "set_torrent_priority" ->
             [method |-> "torrent-set",
              arguments |-> Some({<<"ids", Get(arguments, "torrent_id")>>,
                                  <<"bandwidthPriority", "1">>}),
              tag |-> None]
      [] name = "set_speed_limits" ->
             [method |-> "session-set", arguments |-> Some({}), tag |-> None]
      [] name = "search_torrents" ->
             [method |-> "torrent-get",
              arguments |-> Some({<<"fields", "id">>}), tag |-> None]
      [] OTHER ->
             [method |-> "session-stats", arguments |-> None, tag |-> None]

\* return [types.TextContent(type="text", text=...)]: a list of one text.
text_result(text) ==
    [kind |-> "return", content |-> << [type |-> "text", text |-> text] >>]

\* The handler is left by an exception: nothing is returned.
raised(exception) == [kind |-> "raise", content |-> << >>]

\* What each branch answers for the document of the daemon: a text of
\* success when result.get("result") == "success" (a document without
\* torrents for the two torrent-get tools), a "Failed to ..." text otherwise.
tool_text(name, document) ==
    IF document.result = "success"
    THEN CASE name = "get_torrent_info" -> <<"Torrent not found", name>>
           [] name = "search_torrents" -> <<"No torrents found matching", name>>
           [] OTHER -> <<"Success", name>>
    ELSE <<"Failed", name, document.result>>

\* The handler only catches the errors _make_request raises itself.
handler_catches_only_request_errors(exception) ==
    exception \in {"Exception: HTTP error", "Exception: Network error"}

\* Lines 619-624: "except Exception as e" catches every exception the
\* body raises: the KeyError of a missing argument, the Exception of
\* _make_request and the JSONDecodeError it lets through.
handler_catches(exception) ==
    exception \in {"KeyError", "Exception: HTTP error",
                   "Exception: Network error", "JSONDecodeError"}

\* Lines 619-624: a caught exception becomes "Error executing <name>: <e>".
handle_exception(name, exception) ==
    IF handler_catches(exception)
    THEN text_result(<<"Error executing", name, exception>>)
    ELSE raised(exception)

\* Lines 316-324 and 613-617: the handler runs up to its first await or,
\* when it has none, to its return.
tool_called(c, name, arguments) ==
    /\ tool[c].pc = "idle"
    /\ frame[c].pc = "idle"
    /\ IF name \notin KnownTools
       THEN /\ tool' = [tool EXCEPT ![c] =
                   [pc |-> "returned", name |-> name, arguments |-> arguments,
                    result |-> Some(text_result(<<"Unknown tool", name>>))]]
            /\ UNCHANGED << transmission_session_id, session_id, frame, posts,
                            replies, outcome, issued, last409 >>
       ELSE IF ~(required_arguments(name) \subseteq Keys(arguments))
       THEN /\ tool' = [tool EXCEPT ![c] =
                   [pc |-> "returned", name |-> name, arguments |-> arguments,
                    result |-> Some(handle_exception(name, "KeyError"))]]
            /\ UNCHANGED << transmission_session_id, session_id, frame, posts,
                            replies, outcome, issued, last409 >>
       ELSE /\ make_request(c, tool_request(name, arguments))
            /\ tool' = [tool EXCEPT ![c] =
                   [pc |-> "awaiting", name |-> name, arguments |-> arguments,
                    result |-> None]]

\* The awaited _make_request is over: its document is formatted, its
\* exception goes to the except clause.
tool_resumes(c) ==
    /\ tool[c].pc = "awaiting"
    /\ frame[c].pc = "done"
    /\ tool' = [tool EXCEPT ![c].pc = "returned",
                   ![c].result =
                       IF outcome[c].kind = "return"
                       THEN Some(text_result(tool_text(tool[c].name,
                                                       outcome[c].value[1])))
                       ELSE Some(handle_exception(tool[c].name,
                                                  outcome[c].kind))]
    /\ UNCHANGED << transmission_session_id, session_id, frame, posts,
                    replies, outcome, issued, last409 >>

\* The MCP server takes the handler's result; the coroutine is gone.
tool_result_taken(c) ==
    /\ tool[c].pc = "returned"
    /\ tool' = [tool EXCEPT ![c] = NoTool]
    /\ frame' = [frame EXCEPT ![c] = NoFrame]
    /\ posts' = [posts EXCEPT ![c] = << >>]
    /\ replies' = [replies EXCEPT ![c] = << >>]
    /\ outcome' = [outcome EXCEPT ![c] = Pending]
    /\ UNCHANGED << transmission_session_id, session_id, issued, last409 >>

NoToolRunning == \A d \in Calls : tool[d].pc = "idle" /\ frame[d].pc = "idle"

\* Tool calls, one at a time, against every response of the daemon.
NextTool ==
    \E c \in Calls :
        \/ \E name \in ToolNames : \E arguments \in ToolArguments :
               NoToolRunning /\ tool_called(c, name, arguments)
        \/ \E r \in Responses : first_response(c, r)
        \/ first_request_error(c)
        \/ \E r \in Responses : retry_response(c, r)
        \/ retry_request_error(c)
        \/ post_times_out(c)
        \/ tool_resumes(c)
        \/ tool_result_taken(c)

SpecTool == Init /\ [][NextTool]_vars

\* ============================================================== claims
IsError(o) == o.kind \in {"Exception: HTTP error", "Exception: Network error",
                          "JSONDecodeError"}
Done(c) == frame[c].pc = "done"
Got409WithToken(x) ==
    x.kind = "response" /\ x.status = 409 /\ x.session \in {Some(t) : t \in Tokens}
Starts(c) == frame[c].pc = "idle" /\ frame'[c].pc = "post1"
Completes(c) == frame[c].pc \in {"post1", "post2"} /\ frame'[c].pc = "done"

\* C1: a call issues exactly one POST when its first POST is not answered
\* by a 409, exactly two when it is answered by a 409 that carries a token
\* (whatever the retry comes back with), and never more than two.
C1_PostCount ==
    \A c \in Calls :
        /\ Len(posts[c]) <= 2
        /\ Done(c) =>
              /\ ~(replies[c][1].kind = "response" /\ replies[c][1].status = 409)
                    => Len(posts[c]) = 1
              /\ Got409WithToken(replies[c][1]) => Len(posts[c]) = 2

\* A call whose first POST got a 409 with a token has ended in an error
\* after its second POST.
C1_Witness ==
    \E c \in Calls :
        /\ Done(c) /\ Got409WithToken(replies[c][1])
        /\ Len(posts[c]) = 2 /\ IsError(outcome[c])

\* C2: once a 409 with a token has been received, every call that starts
\* sends its first POST with the stored token in X-Transmission-Session-Id,
\* and the stored token is the one of the latest such 409.
C2_TokenPropagation ==
    [][\A c \in Calls :
          (Starts(c) /\ last409.token # None) =>
              /\ posts'[c][1].headers.session = last409.token
              /\ posts'[c][1].headers.session = transmission_session_id]_vars

\* A call got a 409 with token T, and a call with another method is
\* waiting for the answer to a first POST that carries T.
C2_Witness ==
    \E c, d \in Calls :
        /\ c # d /\ frame[d].pc = "post2" /\ Got409WithToken(replies[d][1])
        /\ frame[c].pc = "post1" /\ frame[c].method # frame[d].method
        /\ posts[c][1].headers.session = replies[d][1].session
        /\ last409.call = d

\* C3: the stored token is always absent or one whole token that the
\* daemon sent in a 409, and when all the calls, each answered by a 409
\* first, have finished it is the token of the last of these 409s.
C3_TokenConverges ==
    /\ \/ transmission_session_id = None
       \/ transmission_session_id \in {Some(t) : t \in issued}
    /\ (\A c \in Calls : Done(c) /\ Got409WithToken(replies[c][1]))
          => transmission_session_id = last409.token

\* All the calls started before any token was stored, all were answered by
\* a 409, with different tokens, and all have finished.
C3_Witness ==
    /\ \A c \in Calls :
          /\ Done(c) /\ Got409WithToken(replies[c][1])
          /\ posts[c][1].headers.session = None
    /\ \E c, d \in Calls : replies[c][1].session # replies[d][1].session

\* C4: a call whose first POST and whose retry are both answered by a 409
\* ends in an error after two POSTs, also when the second 409 carries
\* another token.
C4_Second409Fails ==
    \A c \in Calls :
        ( /\ Len(replies[c]) = 2
          /\ Got409WithToken(replies[c][1])
          /\ replies[c][2].kind = "response" /\ replies[c][2].status = 409 )
        => /\ Done(c) /\ IsError(outcome[c])
           /\ Len(posts[c]) = 2

\* The retry was answered by a 409 with a token other than the first one.
C4_Witness ==
    \E c \in Calls :
        /\ Done(c) /\ Len(replies[c]) = 2
        /\ Got409WithToken(replies[c][1]) /\ Got409WithToken(replies[c][2])
        /\ replies[c][2].session # replies[c][1].session
        /\ IsError(outcome[c]) /\ Len(posts[c]) = 2

\* The first POST of c is answered, in this step, by a 409 without the
\* X-Transmission-Session-Id header.
Answered409WithoutToken(c) ==
    /\ frame[c].pc = "post1" /\ frame'[c].pc # "post1"
    /\ replies'[c][1].kind = "response" /\ replies'[c][1].status = 409
    /\ replies'[c][1].session = None

\* C5, as stated: a 409 without a session header ends the call with an
\* error of a kind other than the HTTP status error, without a retry and
\* with the stored token unchanged.
C5_RaisesProtocolError ==
    [][\A c \in Calls :
          Answered409WithoutToken(c) =>
              /\ frame'[c].pc = "done" /\ IsError(outcome'[c])
              /\ outcome'[c].kind # "Exception: HTTP error"
              /\ posts'[c] = posts[c] /\ Len(posts'[c]) = 1
              /\ transmission_session_id' = transmission_session_id]_vars

\* C5, amended: a 409 without a session header ends the call with the
\* error of every non-2xx status, Exception("HTTP error 409: ..."),
\* without a retry and with the stored token unchanged.
C5_RaisesHttpError409 ==
    [][\A c \in Calls :
          Answered409WithoutToken(c) =>
              /\ frame'[c].pc = "done"
              /\ outcome'[c] = [kind |-> "Exception: HTTP error", status |-> 409,
                                value |-> None]
              /\ posts'[c] = posts[c] /\ Len(posts'[c]) = 1
              /\ transmission_session_id' = transmission_session_id]_vars

\* A call made while a token was stored has ended on a 409 without a
\* session header.
C5_Witness ==
    \E c \in Calls :
        /\ Done(c) /\ Len(replies[c]) = 1
        /\ replies[c][1].kind = "response" /\ replies[c][1].status = 409
        /\ replies[c][1].session = None
        /\ posts[c][1].headers.session # None
        /\ transmission_session_id # None

\* C6: a POST that fails at the network level, the first one or the retry,
\* ends the call with the network error and no further POST.
C6_NetworkErrorEndsCall ==
    \A c \in Calls :
        (Len(replies[c]) >= 1 /\ replies[c][Len(replies[c])].kind = "RequestError")
        => /\ Done(c)
           /\ outcome[c].kind = "Exception: Network error"
           /\ Len(posts[c]) = Len(replies[c])

\* The retry after a 409 failed at the network level.
C6_Witness ==
    \E c \in Calls :
        /\ Done(c) /\ Len(replies[c]) = 2 /\ Len(posts[c]) = 2
        /\ Got409WithToken(replies[c][1])
        /\ replies[c][2].kind = "RequestError"
        /\ outcome[c].kind = "Exception: Network error"

\* C7, as stated: the body of every POST of a call, the retry included,
\* has a "tag" exactly when the caller supplied one, with the supplied
\* value (0 included).
C7_TagIffSupplied ==
    \A c \in Calls : \A i \in 1..Len(posts[c]) :
        /\ posts[c][i].json.tag # None <=> frame[c].tag # None
        /\ frame[c].tag # None => posts[c][i].json.tag = frame[c].tag

RetrySucceeds(c) ==
    /\ frame[c].pc = "post2" /\ frame'[c].pc = "done"
    /\ Got409WithToken(replies'[c][1])
    /\ replies'[c][2].kind = "response"
    /\ replies'[c][2].status \in 200..299
    /\ replies'[c][2].text \in {JsonSuccess, JsonOther}

\* What C9 says of the call and of its retry: the body of the second
\* response is returned, and the retry carried T and the first POST's body.
ReturnsRetryBody(c) ==
    /\ outcome'[c] = [kind |-> "return", status |-> replies'[c][2].status,
                      value |-> json(replies'[c][2].text)]
    /\ Len(posts'[c]) = 2
    /\ posts'[c][2].headers.session = replies'[c][1].session
    /\ posts'[c][2].json = posts'[c][1].json
    /\ posts'[c][2].json.method = frame[c].method

\* C9, as stated: after 409 with token T and then 2xx with JSON body B, the
\* call returns B, the retry carried T with the same method and arguments,
\* and the stored token is T when the call returns.
C9_TokenIsOwnWhenReturning ==
    [][\A c \in Calls :
          RetrySucceeds(c) =>
              /\ ReturnsRetryBody(c)
              /\ transmission_session_id' = replies'[c][1].session]_vars

\* C9, amended: the same, but the stored token is T when the call returns
\* only if no other call was answered by a 409 with a token after this one
\* was; in every case it is the token of the latest such 409.
C9_TokenIsLatestWhenReturning ==
    [][\A c \in Calls :
          RetrySucceeds(c) =>
              /\ ReturnsRetryBody(c)
              /\ transmission_session_id' = last409.token
              /\ last409.call = c
                    => transmission_session_id' = replies'[c][1].session]_vars

\* A call has returned the body of its retry while the token of its own
\* 409 was the stored one.
C9_Witness ==
    \E c \in Calls :
        /\ Done(c) /\ Len(replies[c]) = 2 /\ Got409WithToken(replies[c][1])
        /\ replies[c][2].kind = "response" /\ replies[c][2].status = 200
        /\ outcome[c].kind = "return"
        /\ outcome[c].value = Some([result |-> "success"])
        /\ last409.call = c
        /\ transmission_session_id = replies[c][1].session

\* C10: the stored token changes only in a step in which a first POST is
\* answered by a 409 with a session header, and to that header's value; a
\* first answer that is no 409, or no answer at all, leaves it unchanged;
\* a present token never becomes absent.
C10_TokenChangesOnlyOn409 ==
    [][/\ transmission_session_id' # transmission_session_id =>
             \E c \in Calls :
                 /\ frame[c].pc = "post1" /\ Len(replies'[c]) = 1
                 /\ Got409WithToken(replies'[c][1])
                 /\ transmission_session_id' = replies'[c][1].session
       /\ \A c \in Calls :
             ( /\ frame[c].pc = "post1" /\ frame'[c].pc # "post1"
               /\ ~(replies'[c][1].kind = "response" /\ replies'[c][1].status = 409) )
             => transmission_session_id' = transmission_session_id
       /\ transmission_session_id # None => transmission_session_id' # None]_vars

\* A 409 has replaced a stored token by another one.
C10_Witness ==
    \E c \in Calls :
        /\ frame[c].pc = "post2" /\ Got409WithToken(replies[c][1])
        /\ posts[c][1].headers.session # None
        /\ posts[c][1].headers.session # replies[c][1].session
        /\ transmission_session_id = replies[c][1].session

\* C11: when the last response of a call (to its first POST or to its
\* retry) is a 2xx whose body is no JSON, the call ends with the decode
\* error (json.JSONDecodeError), which is neither the network error nor the
\* HTTP status error, and posts nothing more.
C11_DecodeError ==
    \A c \in Calls :
        ( /\ Len(replies[c]) >= 1
          /\ replies[c][Len(replies[c])].kind = "response"
          /\ replies[c][Len(replies[c])].status \in 200..299
          /\ replies[c][Len(replies[c])].text \notin {JsonSuccess, JsonOther} )
        => /\ Done(c)
           /\ outcome[c].kind = "JSONDecodeError"
           /\ outcome[c].kind \notin {"Exception: Network error",
                                      "Exception: HTTP error"}
           /\ Len(posts[c]) = Len(replies[c])

\* The retry after a 409 was answered by a 200 whose body is no JSON.
C11_Witness ==
    \E c \in Calls :
        /\ Done(c) /\ Len(replies[c]) = 2 /\ Len(posts[c]) = 2
        /\ Got409WithToken(replies[c][1])
        /\ replies[c][2].kind = "response" /\ replies[c][2].status = 200
        /\ replies[c][2].text = Html
        /\ outcome[c].kind = "JSONDecodeError"

\* C12: every call that is waiting for the daemon eventually ends, with a
\* result or an error, whatever the other calls do and whatever the stored
\* token is.
C12_Terminates ==
    \A c \in Calls : (frame[c].pc \in {"post1", "post2"}) ~> (frame[c].pc = "done")

\* A call has ended by a failed retry while another call is still waiting
\* for the answer to its own retry.
C12_Witness ==
    \E c, d \in Calls :
        /\ c # d /\ frame[d].pc = "post2"
        /\ Done(c) /\ Len(replies[c]) = 2
        /\ replies[c][2].kind = "RequestError"
        /\ outcome[c].kind = "Exception: Network error"

\* C13, as stated: once a call has gone through the 409 handshake and has
\* returned a result, the client's session_id attribute holds the token
\* (it is not None).
C13_SessionIdObtained ==
    \A c \in Calls :
        ( /\ Done(c) /\ Len(replies[c]) = 2
          /\ Got409WithToken(replies[c][1])
          /\ outcome[c].kind = "return" )
        => /\ session_id # None
           /\ session_id = replies[c][1].session

\* C14: the retry of a call carries the token of the 409 that this call
\* received, whatever the stored token is then and later: a 409 received
\* by another call changes the stored token, not the retry's header.
C14_RetryCarriesOwnToken ==
    \A c \in Calls :
        Len(posts[c]) = 2 =>
            /\ Got409WithToken(replies[c][1])
            /\ posts[c][2].headers.session = replies[c][1].session

\* The retry of c carries the token of c's 409 and is not answered yet,
\* while the stored token is the other one, of the later 409 of d.
C14_Witness ==
    \E c, d \in Calls :
        /\ c # d /\ frame[c].pc = "post2" /\ frame[d].pc = "post2"
        /\ last409.call = d
        /\ replies[c][1].session # replies[d][1].session
        /\ transmission_session_id = replies[d][1].session
        /\ posts[c][2].headers.session = replies[c][1].session
        /\ posts[c][2].headers.session # transmission_session_id

\* C15: handle_call_tool never propagates an error to its caller.  Whatever
\* the tool name and the argument mapping, a handler that is over has
\* returned a list of exactly one text: the "Unknown tool" text for a name
\* it does not know, and then it has issued no RPC call; the "Error
\* executing <name>" text when a required argument is missing (again without
\* an RPC call) and when its _make_request failed with a network error, an
\* HTTP error, a failed handshake or a body that is no JSON.
C15_ToolNeverRaises ==
    \A c \in Calls :
        tool[c].pc = "returned" =>
            LET result == tool[c].result[1]
                name == tool[c].name
                missing == required_arguments(name) \ Keys(tool[c].arguments)
            IN  /\ result.kind = "return"
                /\ Len(result.content) = 1
                /\ result.content[1].type = "text"
                /\ name \notin KnownTools =>
                       /\ result.content[1].text = <<"Unknown tool", name>>
                       /\ frame[c].pc = "idle" /\ Len(posts[c]) = 0
                /\ (name \in KnownTools /\ missing # {}) =>
                       /\ result.content[1].text =
                              <<"Error executing", name, "KeyError">>
                       /\ frame[c].pc = "idle" /\ Len(posts[c]) = 0
                /\ (name \in KnownTools /\ missing = {}) =>
                       /\ frame[c].pc = "done"
                       /\ IsError(outcome[c]) =>
                              result.content[1].text =
                                  <<"Error executing", name, outcome[c].kind>>
                       /\ ~IsError(outcome[c]) =>
                              result.content[1].text[1] # "Error executing"

\* A tool whose handshake failed (the retry was answered 409 again) has
\* returned the "Error executing" text.
C15_Witness ==
    \E c \in Calls :
        /\ tool[c].pc = "returned"
        /\ tool[c].name = "add_torrent"
        /\ Len(replies[c]) = 2 /\ replies[c][2].status = 409
        /\ outcome[c].kind = "Exception: HTTP error"
        /\ tool[c].result[1].content[1].text =
               <<"Error executing", "add_torrent", "Exception: HTTP error">>

====
